---- MODULE Spec2Model ----
(***************************************************************************)
(* btx/processing/indexer.py: the Indexer command builder and reporter,    *)
(* and the script's main path, run by one or several OS processes.         *)
(* Python str values are TLA+ strings.                                     *)
(***************************************************************************)
EXTENDS Integers, Sequences, FiniteSets, TLC

\* An optional value (Python None or a value) is <<>> or <<v>>.
None == <<>>
Some(v) == <<v>>

(***************************************************************************)
(* Bounds of the model.                                                    *)
(***************************************************************************)
\* processes launched in one invocation (MPI ranks 0 .. NProcs-1)
NProcs == 2
\* largest number of "Cell parameters" lines in the stream file
MaxIndexed == 9
\* largest hit count written in the peakfinding summary
MaxTotal == 40

(***************************************************************************)
(* Python string and integer primitives used by indexer.py.                *)
(***************************************************************************)
Ch(s, i) == SubSeq(s, i, i)

\* Python: pat in s (also what grep does with a fixed pattern on a line)
Contains(s, pat) ==
    \E i \in 1..(Len(s) - Len(pat) + 1) : SubSeq(s, i, i + Len(pat) - 1) = pat

\* the positions of the one-character string c in s
Positions(s, c) == {i \in 1..Len(s) : Ch(s, i) = c}

\* Python: s.split(c) for a one-character separator c
Split(s, c) ==
    LET P == Positions(s, c)
        n == Cardinality(P)
        Nth(k) == CHOOSE i \in P : Cardinality({j \in P : j <= i}) = k
        first(k) == IF k = 1 THEN 1 ELSE Nth(k - 1) + 1
        last(k) == IF k = n + 1 THEN Len(s) ELSE Nth(k) - 1
    IN  [k \in 1..(n + 1) |-> SubSeq(s, first(k), last(k))]

\* the concatenation of seq[lo..hi]
RECURSIVE JoinRange(_, _, _)
JoinRange(seq, lo, hi) ==
    IF lo > hi THEN ""
    ELSE IF lo = hi THEN seq[lo]
    ELSE JoinRange(seq, lo, (lo + hi) \div 2) \o JoinRange(seq, (lo + hi) \div 2 + 1, hi)

Join(seq) == JoinRange(seq, 1, Len(seq))

\* Python: s.strip(chars), cs the set of characters to drop
RECURSIVE LStrip(_, _)
LStrip(s, cs) ==
    IF Len(s) > 0 /\ Ch(s, 1) \in cs THEN LStrip(SubSeq(s, 2, Len(s)), cs) ELSE s

RECURSIVE RStrip(_, _)
RStrip(s, cs) ==
    IF Len(s) > 0 /\ Ch(s, Len(s)) \in cs
    THEN RStrip(SubSeq(s, 1, Len(s) - 1), cs) ELSE s

Strip(s, cs) == RStrip(LStrip(s, cs), cs)

Digits == "0123456789"
DigitStr(d) == SubSeq(Digits, d + 1, d + 1)
IsDigit(c) == \E d \in 0..9 : DigitStr(d) = c
DigitVal(c) == CHOOSE d \in 0..9 : DigitStr(d) = c

\* Python: str(n) for n >= 0
RECURSIVE NatToStr(_)
NatToStr(n) ==
    IF n < 10 THEN DigitStr(n) ELSE NatToStr(n \div 10) \o DigitStr(n % 10)

\* Python: f"{n}" for an int
IntToStr(n) == IF n < 0 THEN "-" \o NatToStr(-n) ELSE NatToStr(n)

RECURSIVE ZeroPad(_, _)
ZeroPad(s, w) == IF Len(s) >= w THEN s ELSE ZeroPad("0" \o s, w)

\* Python: f"{n:04}": sign first, then zeros up to a total width of 4
Fmt04(n) ==
    IF n < 0 THEN "-" \o ZeroPad(NatToStr(-n), 3) ELSE ZeroPad(NatToStr(n), 4)

RECURSIVE DigitsVal(_, _)
DigitsVal(s, acc) ==
    IF Len(s) = 0 THEN acc
    ELSE DigitsVal(SubSeq(s, 2, Len(s)), 10 * acc + DigitVal(Ch(s, 1)))

AllDigits(s) == Len(s) > 0 /\ \A i \in 1..Len(s) : IsDigit(Ch(s, i))

\* Python: int(s): surrounding whitespace is dropped, one sign is allowed.
\* [ok |-> FALSE] stands for the ValueError int() raises.
ParseInt(s) ==
    LET t == Strip(s, {" ", "\n", "\t"})
        neg == Len(t) > 0 /\ Ch(t, 1) = "-"
        signed == Len(t) > 0 /\ Ch(t, 1) \in {"-", "+"}
        body == IF signed THEN SubSeq(t, 2, Len(t)) ELSE t
    IN  IF ~AllDigits(body) THEN [ok |-> FALSE, val |-> 0]
        ELSE [ok |-> TRUE,
              val |-> IF neg THEN 0 - DigitsVal(body, 0) ELSE DigitsVal(body, 0)]

\* Python: os.path.join(a, b) on posix
OsPathJoin(a, b) ==
    IF Len(b) > 0 /\ Ch(b, 1) = "/" THEN b
    ELSE IF a = "" \/ Ch(a, Len(a)) = "/" THEN a \o b
    ELSE a \o "/" \o b

(***************************************************************************)
(* f"{(n/t):.2f}" for ints n >= 0, t > 0.  n/t is the double nearest to    *)
(* the quotient, and the format rounds that double to two decimals, a tie  *)
(* of the double going to the even digit.  DoubleCmp is the sign of        *)
(* (double - quotient), from the remainder of the 53-bit significand.      *)
(***************************************************************************)
RECURSIVE MulPow2Mod(_, _, _)
MulPow2Mod(x, s, t) == IF s = 0 THEN x % t ELSE MulPow2Mod((2 * x) % t, s - 1, t)

\* the e with 2^e <= n/t < 2^(e+1), for n > 0
RECURSIVE ExpUp(_, _, _)
ExpUp(n, t, e) == IF 2 * t > n THEN e ELSE ExpUp(n, 2 * t, e + 1)

RECURSIVE ExpDown(_, _, _)
ExpDown(n, t, e) == IF n >= t THEN e ELSE ExpDown(2 * n, t, e - 1)

Exponent(n, t) == IF n >= t THEN ExpUp(n, t, 0) ELSE ExpDown(n, t, 0)

DoubleCmp(n, t) ==
    IF n = 0 THEN 0
    ELSE LET rem == MulPow2Mod(n, 52 - Exponent(n, t), t)
         IN  IF rem = 0 THEN 0 ELSE IF 2 * rem < t THEN 0 - 1 ELSE 1

\* Hundredths, were the format to cut the quotient off instead of rounding it
TruncHundredths(n, t) == (100 * n) \div t

\* the hundredths the format prints
Hundredths(n, t) ==
    LET h == (100 * n) \div t
        r == (100 * n) % t
    IN  IF 2 * r < t THEN h
        ELSE IF 2 * r > t THEN h + 1
        ELSE IF DoubleCmp(n, t) < 0 THEN h
        ELSE IF DoubleCmp(n, t) > 0 THEN h + 1
        ELSE IF h % 2 = 0 THEN h ELSE h + 1

Format2f(n, t) ==
    LET h == Hundredths(n, t)
    IN  NatToStr(h \div 100) \o "." \o ZeroPad(NatToStr(h % 100), 2)

(***************************************************************************)
(* Files hold their raw text.  A path that is not in the domain of fs does *)
(* not exist.                                                              *)
(***************************************************************************)
\* Python: f.readlines(): the lines, each with its "\n" (the last may lack it)
ReadLines(text) ==
    LET parts == Split(text, "\n")
        n == Len(parts) - 1
    IN  [k \in 1..(IF parts[n + 1] = "" THEN n ELSE n + 1) |->
            IF k <= n THEN parts[k] \o "\n" ELSE parts[k]]

\* the lines of `lines` that contain pat, each ended by "\n"
ConcatMatching(lines, pat) ==
    LET Matches(line) == Contains(RStrip(line, {"\n"}), pat)
        Ended(line) == RStrip(line, {"\n"}) \o "\n"
        hits == SelectSeq(lines, Matches)
    IN  Join([k \in 1..Len(hits) |-> Ended(hits[k])])

\* stdout of `grep pat path`: the matching lines; nothing for a missing file
Grep(files, pat, path) ==
    IF path \in DOMAIN files THEN ConcatMatching(ReadLines(files[path]), pat) ELSE ""

\* Python: seq[:-1]
DropLast(seq) == SubSeq(seq, 1, Len(seq) - 1)

\* Python: seq[:k]
Take(seq, k) == SubSeq(seq, 1, IF Len(seq) < k THEN Len(seq) ELSE k)

(***************************************************************************)
(* parse_input: the three flags are declared with action='store_false', so *)
(* each parameter is True unless its flag is given.                        *)
(***************************************************************************)
StoreFalse(given) == ~given

\* the words a shell makes of a command line without quotes
ShellWords(line) ==
    LET NonEmpty(w) == w # ""
    IN  SelectSeq(Split(RStrip(line, {"\n"}), " "), NonEmpty)

HasOpt(words, opt) == \E i \in 1..Len(words) : words[i] = opt

\* the argument of an option that takes one, None if the option is not given
OptArg(words, opt) ==
    IF HasOpt(words, opt)
    THEN Some(words[(CHOOSE i \in 1..Len(words) : words[i] = opt) + 1])
    ELSE None

OptArgOr(words, opt, default) ==
    IF HasOpt(words, opt) THEN OptArg(words, opt)[1] ELSE default

\* the arguments parse_input declares, read from the words after the script
ParseArgv(words) ==
    [exp |-> OptArg(words, "-e")[1],
     run |-> ParseInt(OptArg(words, "-r")[1]).val,
     det_type |-> OptArg(words, "-d")[1],
     tag |-> OptArg(words, "--tag")[1],
     tag_cxi |-> OptArg(words, "--tag_cxi"),
     taskdir |-> OptArg(words, "--taskdir")[1],
     report |-> HasOpt(words, "--report"),
     update_url |-> OptArg(words, "--update_url"),
     geom |-> OptArg(words, "--geom"),
     cell |-> OptArg(words, "--cell"),
     int_rad |-> OptArgOr(words, "--int_rad", "4,5,6"),
     methods |-> OptArgOr(words, "--methods", "xgandalf,mosflm,xds"),
     tolerance |-> OptArgOr(words, "--tolerance", "5,5,5,1.5"),
     no_revalidate |-> HasOpt(words, "--no_revalidate"),
     multi |-> HasOpt(words, "--multi"),
     profile |-> HasOpt(words, "--profile")]

ParseInput(cli) ==
    [exp |-> cli.exp, run |-> cli.run, det_type |-> cli.det_type, tag |-> cli.tag,
     tag_cxi |-> cli.tag_cxi, taskdir |-> cli.taskdir, report |-> cli.report,
     update_url |-> cli.update_url, geom |-> cli.geom, cell |-> cli.cell,
     int_rad |-> cli.int_rad, methods |-> cli.methods, tolerance |-> cli.tolerance,
     no_revalidate |-> StoreFalse(cli.no_revalidate),
     multi |-> StoreFalse(cli.multi),
     profile |-> StoreFalse(cli.profile)]

(***************************************************************************)
(* Indexer._retrieve_paths                                                 *)
(***************************************************************************)
\* NormTagCxi, were the test of tag_cxi[0] left out
NormTagCxi_AlwaysPrefix(tag_cxi) ==
    IF tag_cxi # None /\ tag_cxi[1] # "" THEN "_" \o tag_cxi[1] ELSE ""

\* the tag_cxi the object keeps
NormTagCxi(tag_cxi) ==
    IF tag_cxi # None
    THEN IF tag_cxi[1] # "" /\ Ch(tag_cxi[1], 1) # "_" THEN "_" \o tag_cxi[1]
         ELSE tag_cxi[1]
    ELSE ""

\* LstPath, were tag_cxi left out of the file name
LstPath_NoTagCxi(taskdir, run, tag_cxi) ==
    OsPathJoin(taskdir, "r" \o Fmt04(run) \o "/r" \o Fmt04(run) \o ".lst")

LstPath(taskdir, run, tag_cxi) ==
    OsPathJoin(taskdir, "r" \o Fmt04(run) \o "/r" \o Fmt04(run) \o tag_cxi \o ".lst")

StreamPath(taskdir, run, tag) ==
    OsPathJoin(taskdir, "r" \o Fmt04(run) \o "_" \o tag \o ".stream")

TmpExePath(e, taskdir, run) ==
    IF e.TMP_EXE # None THEN e.TMP_EXE[1]
    ELSE OsPathJoin(taskdir, "r" \o Fmt04(run) \o "/index_r" \o Fmt04(run) \o ".sh")

PeakfindingSummaryPath(taskdir, run, tag_cxi) ==
    OsPathJoin(taskdir, "r" \o Fmt04(run) \o "/peakfinding" \o tag_cxi \o ".summary")

IndexingSummaryPath(taskdir, run, tag) ==
    OsPathJoin(taskdir, "r" \o Fmt04(run) \o "/indexing_" \o tag \o ".summary")

\* os.path.abspath(__file__)
ScriptPath == "/btx/btx/processing/indexer.py"

\* Indexer._parallel_logic: the rank a process takes
ParallelRank(e, mpiRank) == IF ParseInt(e.NCORES).val > 1 THEN mpiRank ELSE 0

\* Indexer.__init__: the object built from the parsed parameters
NewIndexer(params, e, mpiRank) ==
    LET tc == NormTagCxi(params.tag_cxi)
    IN  [exp |-> params.exp, run |-> params.run, det_type |-> params.det_type,
         taskdir |-> params.taskdir, tag |-> params.tag, tag_cxi |-> tc,
         geom |-> params.geom, cell |-> params.cell, rad |-> params.int_rad,
         methods |-> params.methods, tolerance |-> params.tolerance,
         no_revalidate |-> params.no_revalidate, multi |-> params.multi,
         profile |-> params.profile,
         lst |-> LstPath(params.taskdir, params.run, tc),
         stream |-> StreamPath(params.taskdir, params.run, params.tag),
         tmp_exe |-> TmpExePath(e, params.taskdir, params.run),
         peakfinding_summary |-> PeakfindingSummaryPath(params.taskdir, params.run, tc),
         indexing_summary |-> IndexingSummaryPath(params.taskdir, params.run, params.tag),
         script_path |-> ScriptPath,
         python_path |-> e.WHICHPYTHON,
         nproc |-> e.NCORES,
         rank |-> ParallelRank(e, mpiRank)]

(***************************************************************************)
(* Indexer.write_exe: the two commands and the text of the script          *)
(***************************************************************************)
\* Python: f"{v}" of an optional string
FStr(v) == IF v = None THEN "None" ELSE v[1]

\* IndexCommand, were --multi added whatever self.multi is
IndexCommand_MultiAlways(o) ==
    "indexamajig -i " \o o.lst \o " -o " \o o.stream \o " -j " \o o.nproc
        \o " -g " \o FStr(o.geom) \o " --peaks=cxi --int-rad=" \o o.rad
        \o " --indexing=" \o o.methods \o " --tolerance=" \o o.tolerance
        \o (IF o.cell # None THEN " --pdb=" \o o.cell[1] ELSE "")
        \o (IF o.no_revalidate THEN " --no-revalidate" ELSE "")
        \o " --multi"
        \o (IF o.profile THEN " --profile" ELSE "")

IndexCommand(o) ==
    "indexamajig -i " \o o.lst \o " -o " \o o.stream \o " -j " \o o.nproc
        \o " -g " \o FStr(o.geom) \o " --peaks=cxi --int-rad=" \o o.rad
        \o " --indexing=" \o o.methods \o " --tolerance=" \o o.tolerance
        \o (IF o.cell # None THEN " --pdb=" \o o.cell[1] ELSE "")
        \o (IF o.no_revalidate THEN " --no-revalidate" ELSE "")
        \o (IF o.multi THEN " --multi" ELSE "")
        \o (IF o.profile THEN " --profile" ELSE "")

\* ReportCommand, were --tag_cxi never passed on
ReportCommand_NoTagCxi(o) ==
    o.python_path \o " " \o o.script_path \o " -e " \o o.exp \o " -r " \o IntToStr(o.run)
        \o " -d " \o o.det_type \o " --taskdir " \o o.taskdir \o " --report --tag "
        \o o.tag \o " "

ReportCommand(o) ==
    o.python_path \o " " \o o.script_path \o " -e " \o o.exp \o " -r " \o IntToStr(o.run)
        \o " -d " \o o.det_type \o " --taskdir " \o o.taskdir \o " --report --tag "
        \o o.tag \o " "
        \o (IF o.tag_cxi # "" THEN " --tag_cxi " \o o.tag_cxi ELSE "")

ExeText(o) == "#!/bin/bash\n" \o IndexCommand(o) \o "\n" \o ReportCommand(o) \o "\n"

(***************************************************************************)
(* Indexer.report: the counts, the summary text and the elog payload       *)
(***************************************************************************)
\* len(output.split('\n')[:-1]) of grep "Cell parameters" on the stream file
CountIndexed(files, o) ==
    Len(DropLast(Split(Grep(files, "Cell parameters", o.stream), "\n")))

\* int(output.split(":")[1].split("\n")[0]) of grep "Number of hits found" on the
\* peakfinding summary; err names the exception raised instead, "" if none
ParseTotal(files, o) ==
    LET parts == Split(Grep(files, "Number of hits found", o.peakfinding_summary), ":")
    IN  IF Len(parts) < 2 THEN [err |-> "IndexError", val |-> 0]
        ELSE LET r == ParseInt(Split(parts[2], "\n")[1])
             IN  IF r.ok THEN [err |-> "", val |-> r.val]
                 ELSE [err |-> "ValueError", val |-> 0]

CountLine(n_indexed) == "Number of indexed events: " \o NatToStr(n_indexed) \o "\n"

RateLine(n_indexed, n_total) ==
    "Fractional indexing rate rate: " \o Format2f(n_indexed, n_total) \o "\n"

\* the first three lines of the peakfinding summary, as read for the elog
PfLines(files, o) == Take(ReadLines(files[o.peakfinding_summary]), 3)

PfKey(line) == Split(line, ":")[1]
PfVal(line) == Strip(Strip(Split(line, ":")[2], {" "}), {"\n"})

\* the json argument of requests.post
Payload(lines, n_indexed, n_total) ==
    << [key |-> PfKey(lines[1]), value |-> PfVal(lines[1])],
       [key |-> PfKey(lines[2]), value |-> PfVal(lines[2])],
       [key |-> PfKey(lines[3]), value |-> PfVal(lines[3])],
       [key |-> "Number of indexed events", value |-> NatToStr(n_indexed)],
       [key |-> "Fractional indexing rate", value |-> Format2f(n_indexed, n_total)] >>

ElogMessage == "Could not communicate with the elog update url"

(***************************************************************************)
(* State                                                                   *)
(***************************************************************************)
VARIABLES
    cli,      \* the command line every process of the invocation is given
    env,      \* os.environ
    pc,       \* pc[p]: where process p is in the script's main path
    obj,      \* obj[p]: the Indexer of process p, once constructed
    loc,      \* loc[p]: n_indexed and n_total of report
    exc,      \* exc[p]: the exception that ended process p, "" if none
    console,  \* console[p]: what process p printed
    fs,       \* the file system: path -> text
    wrote,    \* the <<process, path>> pairs of files opened for writing
    posts     \* the requests.post calls issued, in order

vars == <<cli, env, pc, obj, loc, exc, console, fs, wrote, posts>>

\* the MPI ranks; pc[p] = "absent" for a rank that was not launched
Procs == 0..(NProcs - 1)

WriteFile(files, path, text) ==
    [q \in DOMAIN files \cup {path} |-> IF q = path THEN text ELSE files[q]]

\* MayWrite, were the rank not looked at
MayWrite_AnyRank(o) == TRUE

\* write_exe and report: `if self.rank == 0:`
MayWrite(o) == o.rank = 0

(***************************************************************************)
(* __main__: params = parse_input(); indexer_obj = Indexer(...)            *)
(* NCORES and WHICHPYTHON are set in every environment of the model; the   *)
(* KeyError the constructor raises without them is left out.               *)
(***************************************************************************)
Construct(p) ==
    /\ pc[p] = "start"
    /\ obj' = [obj EXCEPT ![p] = NewIndexer(ParseInput(cli), env, p)]
    /\ pc' = [pc EXCEPT ![p] = "constructed"]
    /\ UNCHANGED <<cli, env, loc, exc, console, fs, wrote, posts>>

(***************************************************************************)
(* __main__, not params.report: indexer_obj.write_exe()                    *)
(***************************************************************************)
WriteExe(p) ==
    /\ pc[p] = "constructed"
    /\ ~ParseInput(cli).report
    /\ IF MayWrite(obj[p])
       THEN /\ fs' = WriteFile(fs, obj[p].tmp_exe, ExeText(obj[p]))
            /\ wrote' = wrote \cup {<<p, obj[p].tmp_exe>>}
            /\ console' = [console EXCEPT ![p] =
                   Append(@, "Indexing executable written to " \o obj[p].tmp_exe)]
       ELSE UNCHANGED <<fs, wrote, console>>
    /\ pc' = [pc EXCEPT ![p] = "done"]
    /\ UNCHANGED <<cli, env, obj, loc, exc, posts>>

(***************************************************************************)
(* __main__, params.report: indexer_obj.report(params.update_url), in the  *)
(* steps at which its effects on the file system and the network show.     *)
(***************************************************************************)
\* the two greps and the parse of n_total
ReportCount(p) ==
    /\ pc[p] = "constructed"
    /\ ParseInput(cli).report
    /\ IF MayWrite(obj[p])
       THEN LET total == ParseTotal(fs, obj[p])
            IN  /\ console' = [console EXCEPT ![p] = Append(@, obj[p].peakfinding_summary)]
                /\ IF total.err # ""
                   THEN /\ exc' = [exc EXCEPT ![p] = total.err]
                        /\ pc' = [pc EXCEPT ![p] = "raised"]
                        /\ UNCHANGED loc
                   ELSE /\ loc' = [loc EXCEPT ![p] =
                               [n_indexed |-> CountIndexed(fs, obj[p]),
                                n_total |-> total.val]]
                        /\ pc' = [pc EXCEPT ![p] = "counted"]
                        /\ UNCHANGED exc
       ELSE /\ pc' = [pc EXCEPT ![p] = "done"]
            /\ UNCHANGED <<console, loc, exc>>
    /\ UNCHANGED <<cli, env, obj, fs, wrote, posts>>

\* open(self.indexing_summary, 'w'): the file is created or truncated
ReportOpen(p) ==
    /\ pc[p] = "counted"
    /\ fs' = WriteFile(fs, obj[p].indexing_summary, "")
    /\ wrote' = wrote \cup {<<p, obj[p].indexing_summary>>}
    /\ pc' = [pc EXCEPT ![p] = "opened"]
    /\ UNCHANGED <<cli, env, obj, loc, exc, console, posts>>

\* ReportWrite, were a total of zero written as the rate 0.00
ReportWrite_ZeroGuard(p) ==
    /\ pc[p] = "opened"
    /\ fs' = WriteFile(fs, obj[p].indexing_summary,
               CountLine(loc[p].n_indexed)
                   \o (IF loc[p].n_total = 0 THEN "Fractional indexing rate rate: 0.00\n"
                       ELSE RateLine(loc[p].n_indexed, loc[p].n_total)))
    /\ pc' = [pc EXCEPT ![p] = "written"]
    /\ UNCHANGED <<cli, env, obj, loc, exc, console, wrote, posts>>

\* the body of the with block and its exit: the first write is buffered, the
\* division of the second may raise, and leaving the block closes the file,
\* which puts what was written so far into it
ReportWrite(p) ==
    /\ pc[p] = "opened"
    /\ IF loc[p].n_total = 0
       THEN /\ fs' = WriteFile(fs, obj[p].indexing_summary, CountLine(loc[p].n_indexed))
            /\ exc' = [exc EXCEPT ![p] = "ZeroDivisionError"]
            /\ pc' = [pc EXCEPT ![p] = "raised"]
       ELSE /\ fs' = WriteFile(fs, obj[p].indexing_summary,
                        CountLine(loc[p].n_indexed)
                            \o RateLine(loc[p].n_indexed, loc[p].n_total))
            /\ pc' = [pc EXCEPT ![p] = "written"]
            /\ UNCHANGED exc
    /\ UNCHANGED <<cli, env, obj, loc, console, wrote, posts>>

\* Post, were the exception of requests.post not caught
Post_Propagate(p, lines, ok) ==
    /\ posts' = Append(posts,
           [by |-> p, url |-> env.JID_UPDATE_COUNTERS[1], ok |-> ok,
            json |-> Payload(lines, loc[p].n_indexed, loc[p].n_total)])
    /\ exc' = [exc EXCEPT ![p] = IF ok THEN @ ELSE "ConnectionError"]
    /\ pc' = [pc EXCEPT ![p] = IF ok THEN "done" ELSE "raised"]
    /\ UNCHANGED console

\* try: requests.post(...) except: print(...); ok tells whether the call
\* returned or raised (a response with an error status is a return)
Post(p, lines, ok) ==
    /\ posts' = Append(posts,
           [by |-> p, url |-> env.JID_UPDATE_COUNTERS[1], ok |-> ok,
            json |-> Payload(lines, loc[p].n_indexed, loc[p].n_total)])
    /\ console' = [console EXCEPT ![p] = IF ok THEN @ ELSE Append(@, ElogMessage)]
    /\ pc' = [pc EXCEPT ![p] = "done"]
    /\ UNCHANGED exc

\* the post to the elog; the update_url argument is replaced by the
\* environment's JID_UPDATE_COUNTERS before it is read
ReportPost(p) ==
    /\ pc[p] = "written"
    /\ IF env.JID_UPDATE_COUNTERS = None
       THEN /\ pc' = [pc EXCEPT ![p] = "done"]
            /\ UNCHANGED <<exc, console, posts>>
       ELSE IF obj[p].peakfinding_summary \notin DOMAIN fs
       THEN /\ exc' = [exc EXCEPT ![p] = "FileNotFoundError"]
            /\ pc' = [pc EXCEPT ![p] = "raised"]
            /\ UNCHANGED <<console, posts>>
       ELSE LET lines == PfLines(fs, obj[p])
            IN  IF \E i \in 1..Len(lines) : Len(Split(lines[i], ":")) < 2
                THEN \* pf_vals: item.split(":")[1], outside the try
                     /\ exc' = [exc EXCEPT ![p] = "IndexError"]
                     /\ pc' = [pc EXCEPT ![p] = "raised"]
                     /\ UNCHANGED <<console, posts>>
                ELSE IF Len(lines) < 3
                THEN \* pf_keys[2] raises inside the try: caught, nothing sent
                     /\ console' = [console EXCEPT ![p] = Append(@, ElogMessage)]
                     /\ pc' = [pc EXCEPT ![p] = "done"]
                     /\ UNCHANGED <<exc, posts>>
                ELSE \E ok \in BOOLEAN : Post(p, lines, ok)
    /\ UNCHANGED <<cli, env, obj, loc, fs, wrote>>

Next ==
    \/ \E p \in Procs : Construct(p)
    \/ \E p \in Procs : WriteExe(p)
    \/ \E p \in Procs : ReportCount(p)
    \/ \E p \in Procs : ReportOpen(p)
    \/ \E p \in Procs : ReportWrite(p)
    \/ \E p \in Procs : ReportPost(p)

(***************************************************************************)
(* Initial states: a command line, an environment, the number of processes *)
(* launched, and the files the earlier pipeline steps left at the paths    *)
(* the naming convention gives them.                                       *)
(***************************************************************************)
Repeat(text, n) == Join([k \in 1..n |-> text])

\* a stream file with n indexed patterns
StreamText(n) ==
    "----- Begin chunk -----\n"
        \o Repeat("Cell parameters 7.9 7.9 3.8 nm, 90 90 90 deg\n", n)
        \o "----- End chunk -----\n"

\* a peakfinding summary with t hits
PfText(t) ==
    "Number of events processed: 100\nNumber of hits found: " \o NatToStr(t)
        \o "\nFractional hit rate: 0.40\n"

\* peakfinding summaries that are not of that form
PfMalformed ==
    { "Number of events processed: 100\n",
      "Number of events processed: 100\nNumber of hits found 4\nFractional hit rate: 0.40\n",
      "Number of events processed: 100\nNumber of hits found: many\nFractional hit rate: 0.40\n",
      "Number of hits found: 4\nFractional hit rate: 0.40\n",
      "peakfinding summary\nNumber of hits found: 4\nFractional hit rate: 0.40\n" }

\* the counts the files of the initial states hold
IndexedCounts == (0..MaxIndexed) \cup {50}
HitCounts == (0..MaxTotal) \cup {100}

BaseCli ==
    [exp |-> "mfxp1234", run |-> 7, det_type |-> "epix10k2M", tag |-> "foo",
     tag_cxi |-> None, taskdir |-> "/d", report |-> FALSE, update_url |-> None,
     geom |-> Some("/g/det.geom"), cell |-> None, int_rad |-> "4,5,6",
     methods |-> "xgandalf,mosflm,xds", tolerance |-> "5,5,5,1.5",
     no_revalidate |-> FALSE, multi |-> FALSE, profile |-> FALSE]

BaseEnv ==
    [NCORES |-> "1", WHICHPYTHON |-> "/usr/bin/python", TMP_EXE |-> None,
     JID_UPDATE_COUNTERS |-> None]

ElogUrl == "http://elog/update_counters"

\* the file system holding the optional texts st and pf where c looks for them
FilesFor(c, st, pf) ==
    LET sp == StreamPath(c.taskdir, c.run, c.tag)
        pp == PeakfindingSummaryPath(c.taskdir, c.run, NormTagCxi(c.tag_cxi))
    IN  [q \in (IF st = None THEN {} ELSE {sp}) \cup (IF pf = None THEN {} ELSE {pp})
            |-> IF q = sp THEN st[1] ELSE pf[1]]

InitOver(Clis, Envs, Sizes, Streams, Pfs) ==
    /\ cli \in Clis
    /\ env \in Envs
    /\ \E size \in Sizes : pc = [p \in Procs |-> IF p < size THEN "start" ELSE "absent"]
    /\ obj = [p \in Procs |-> None]
    /\ loc = [p \in Procs |-> [n_indexed |-> 0, n_total |-> 0]]
    /\ exc = [p \in Procs |-> ""]
    /\ console = [p \in Procs |-> <<>>]
    /\ \E st \in Streams, pf \in Pfs : fs = FilesFor(cli, st, pf)
    /\ wrote = {}
    /\ posts = <<>>

\* One process; the stream and the peakfinding summary vary.
Init ==
    InitOver(
        {[BaseCli EXCEPT !.report = r, !.tag_cxi = tc] :
            r \in BOOLEAN, tc \in {None, Some("bar")}},
        {[BaseEnv EXCEPT !.JID_UPDATE_COUNTERS = u] : u \in {None, Some(ElogUrl)}},
        {1},
        {None} \cup {Some(StreamText(n)) : n \in IndexedCounts},
        {None} \cup {Some(PfText(t)) : t \in HitCounts}
               \cup {Some(m) : m \in PfMalformed})

Spec == Init /\ [][Next]_vars

\* One process; the run identity and the indexing parameters vary.
InitBuild ==
    InitOver(
        {[BaseCli EXCEPT !.run = r, !.tag = t, !.taskdir = d, !.tag_cxi = tc,
                         !.cell = c, !.no_revalidate = f[1], !.multi = f[2],
                         !.profile = f[3], !.report = rep] :
            r \in {7, 123, 12345}, t \in {"foo", "t_1"}, d \in {"/d", "/d/", "work"},
            tc \in {None, Some(""), Some("bar"), Some("_bar"), Some("_")},
            c \in {None, Some("/c/lyso.cell")},
            f \in BOOLEAN \X BOOLEAN \X BOOLEAN, rep \in BOOLEAN},
        {[BaseEnv EXCEPT !.TMP_EXE = x] : x \in {None, Some("/tmp/index.sh")}},
        {1},
        {Some(StreamText(2))},
        {Some(PfText(4))})

SpecBuild == InitBuild /\ [][Next]_vars

\* Up to NProcs processes, each with its MPI rank; NCORES varies.
InitMPI ==
    InitOver(
        {[BaseCli EXCEPT !.report = r] : r \in BOOLEAN},
        {[BaseEnv EXCEPT !.NCORES = n, !.JID_UPDATE_COUNTERS = u] :
            n \in {"1", "2", "16"}, u \in {None, Some(ElogUrl)}},
        1..NProcs,
        {Some(StreamText(2))},
        {Some(PfText(4)), Some(PfText(0))})

SpecMPI == InitMPI /\ [][Next]_vars

(***************************************************************************)
(* Properties                                                              *)
(***************************************************************************)
Constructed(p) == pc[p] \notin {"absent", "start"}

StartsWith(s, pre) == Len(s) >= Len(pre) /\ SubSeq(s, 1, Len(pre)) = pre

\* process p has run write_exe on rank 0: the script is in the file system
WroteExe(p) == pc[p] = "done" /\ ~cli.report /\ <<p, obj[p].tmp_exe>> \in wrote

\* the lines of the script p wrote, without their "\n"
ExeLines(p) == DropLast(Split(fs[obj[p].tmp_exe], "\n"))

\* the index command is the line that starts with the name of the executable
ExeCommand(p) ==
    LET lines == ExeLines(p)
    IN  lines[CHOOSE i \in 1..Len(lines) : StartsWith(lines[i], "indexamajig ")]

\* d as the directory part of a joined path
DirPrefix(d) == IF d = "" \/ Ch(d, Len(d)) = "/" THEN d ELSE d \o "/"

\* C1 as stated: the paths are the task directory, a "/" and the file name made
\* of the zero-padded run number, the tag and the stored tag_cxi.
C1_Original ==
    \A p \in Procs : Constructed(p) =>
        /\ obj[p].stream =
               cli.taskdir \o "/r" \o Fmt04(cli.run) \o "_" \o cli.tag \o ".stream"
        /\ obj[p].lst =
               cli.taskdir \o "/r" \o Fmt04(cli.run) \o "/r" \o Fmt04(cli.run)
                   \o obj[p].tag_cxi \o ".lst"

\* C1 as amended: the file names are joined to the task directory as
\* os.path.join does, with a "/" only when the directory is not empty and does
\* not already end with one; run 7, tag "foo", directory "/d" and no tag_cxi
\* give "/d/r0007/r0007.lst" and "/d/r0007_foo.stream".
C1_Paths ==
    \A p \in Procs : Constructed(p) =>
        /\ obj[p].stream =
               DirPrefix(cli.taskdir) \o "r" \o Fmt04(cli.run) \o "_" \o cli.tag \o ".stream"
        /\ obj[p].lst =
               DirPrefix(cli.taskdir) \o "r" \o Fmt04(cli.run) \o "/r" \o Fmt04(cli.run)
                   \o obj[p].tag_cxi \o ".lst"
        /\ (cli.run = 7 /\ cli.tag = "foo" /\ cli.taskdir = "/d" /\ cli.tag_cxi = None) =>
               /\ obj[p].lst = "/d/r0007/r0007.lst"
               /\ obj[p].stream = "/d/r0007_foo.stream"

C1_Witness ==
    \E p \in Procs :
        /\ Constructed(p)
        /\ cli.run = 7 /\ cli.tag = "foo" /\ cli.taskdir = "/d" /\ cli.tag_cxi = None
        /\ obj[p].lst = "/d/r0007/r0007.lst"

\* C2: the stored tag_cxi is "" for None or "", the given value with "_" put in
\* front when it is non-empty and does not start with "_", and the given value
\* itself when it starts with "_"; normalising the stored value returns it.
C2_TagCxi ==
    \A p \in Procs : Constructed(p) =>
        LET given == cli.tag_cxi
            stored == obj[p].tag_cxi
        IN  /\ (given = None \/ given = Some("")) => stored = ""
            /\ (given # None /\ given[1] # "" /\ Ch(given[1], 1) # "_") =>
                   stored = "_" \o given[1]
            /\ given = Some("bar") => stored = "_bar"
            /\ (given # None /\ given[1] # "" /\ Ch(given[1], 1) = "_") =>
                   stored = given[1]
            /\ NormTagCxi(Some(stored)) = stored

C2_Witness ==
    \E p \in Procs :
        Constructed(p) /\ cli.tag_cxi = Some("bar") /\ obj[p].tag_cxi = "_bar"

\* C3: the index command in the script holds " --multi", " --no-revalidate" and
\* " --profile" exactly when the object's flag is true, and " --pdb=<cell>"
\* exactly when a cell path was given.
C3_Flags ==
    \A p \in Procs : WroteExe(p) =>
        LET cmd == ExeCommand(p)
        IN  /\ Contains(cmd, " --multi") <=> obj[p].multi
            /\ Contains(cmd, " --no-revalidate") <=> obj[p].no_revalidate
            /\ Contains(cmd, " --profile") <=> obj[p].profile
            /\ Contains(cmd, " --pdb=") <=> cli.cell # None
            /\ cli.cell # None => Contains(cmd, " --pdb=" \o cli.cell[1])

C3_Witness ==
    \E p \in Procs :
        /\ WroteExe(p)
        /\ obj[p].multi /\ ~obj[p].profile /\ cli.cell # None
        /\ Contains(ExeCommand(p), " --multi")
        /\ Contains(ExeCommand(p), " --pdb=/c/lyso.cell")

\* C10 as stated: on the script's main path the index command holds " --multi",
\* " --no-revalidate" and " --profile" exactly when the flag was given on the
\* command line.
C10_Claim ==
    \A p \in Procs : WroteExe(p) =>
        LET cmd == ExeCommand(p)
        IN  /\ Contains(cmd, " --multi") <=> cli.multi
            /\ Contains(cmd, " --no-revalidate") <=> cli.no_revalidate
            /\ Contains(cmd, " --profile") <=> cli.profile

\* the Indexer the script's report line builds when it is run in environment env
Reporter(line) ==
    LET words == ShellWords(line)
    IN  NewIndexer(ParseInput(ParseArgv(SubSeq(words, 3, Len(words)))), env, 0)

SameIdentity(r, o) ==
    /\ r.exp = o.exp /\ r.run = o.run /\ r.det_type = o.det_type
    /\ r.taskdir = o.taskdir /\ r.tag = o.tag /\ r.tag_cxi = o.tag_cxi
    /\ r.stream = o.stream
    /\ r.peakfinding_summary = o.peakfinding_summary
    /\ r.indexing_summary = o.indexing_summary

\* C8 as stated: the script is two lines, the index command and then the
\* report command, which names the builder's run identity.
C8_Original ==
    \A p \in Procs : WroteExe(p) =>
        /\ Len(ExeLines(p)) = 2
        /\ StartsWith(ExeLines(p)[1], "indexamajig ")
        /\ SameIdentity(Reporter(ExeLines(p)[2]), obj[p])

\* C8 as amended: the script is three lines, "#!/bin/bash", the index command
\* and then the report command, which runs the script with --report and names
\* the builder's experiment, run, detector type, task directory, tag and stored
\* tag_cxi, so that the reporter resolves the builder's stream and summary paths.
C8_Script ==
    \A p \in Procs : WroteExe(p) =>
        /\ Len(ExeLines(p)) = 3
        /\ fs[obj[p].tmp_exe] = Join([k \in 1..3 |-> ExeLines(p)[k] \o "\n"])
        /\ ExeLines(p)[1] = "#!/bin/bash"
        /\ StartsWith(ExeLines(p)[2], "indexamajig ")
        /\ Contains(ExeLines(p)[2], " -o " \o obj[p].stream \o " ")
        /\ ShellWords(ExeLines(p)[3])[1] = env.WHICHPYTHON
        /\ ShellWords(ExeLines(p)[3])[2] = ScriptPath
        /\ HasOpt(ShellWords(ExeLines(p)[3]), "--report")
        /\ HasOpt(ShellWords(ExeLines(p)[3]), "--tag_cxi") <=> obj[p].tag_cxi # ""
        /\ SameIdentity(Reporter(ExeLines(p)[3]), obj[p])

C8_Witness ==
    \E p \in Procs :
        /\ WroteExe(p)
        /\ cli.tag_cxi = Some("bar")
        /\ Reporter(ExeLines(p)[3]).peakfinding_summary = obj[p].peakfinding_summary
        /\ Contains(obj[p].peakfinding_summary, "peakfinding_bar.summary")

(***************************************************************************)
(* Properties of the rank guard                                            *)
(***************************************************************************)
WritesOf(p) == {w \in wrote : w[1] = p}
PostsOf(p) == SelectSeq(posts, LAMBDA m : m.by = p)

\* C4: a process whose rank is not 0 opens no file for writing and posts
\* nothing, whatever the others do; so of two processes that hold different
\* ranks at most one has written any given file.
C4_RankZeroOnly ==
    /\ \A p \in Procs : (Constructed(p) /\ obj[p].rank # 0) =>
           /\ WritesOf(p) = {}
           /\ PostsOf(p) = <<>>
    /\ \A p, q \in Procs :
           (Constructed(p) /\ Constructed(q) /\ obj[p].rank # obj[q].rank) =>
               \A path \in DOMAIN fs : ~(<<p, path>> \in wrote /\ <<q, path>> \in wrote)

C4_Witness ==
    \E p, q \in Procs :
        /\ pc[p] = "done" /\ obj[p].rank # 0 /\ WritesOf(p) = {}
        /\ pc[q] = "done" /\ obj[q].rank = 0 /\ WritesOf(q) # {}

(***************************************************************************)
(* Properties of report                                                    *)
(***************************************************************************)
\* process p, on rank 0, has counted and found a total of zero
ZeroTotal(p) ==
    /\ cli.report /\ pc[p] \in {"counted", "opened", "written", "raised", "done"}
    /\ obj[p].rank = 0
    /\ obj[p].peakfinding_summary \in DOMAIN fs
    /\ Contains(fs[obj[p].peakfinding_summary], "Number of hits found: 0\n")

\* C5: on rank 0 with a total of zero, report ends by raising the division
\* error, never returns, and issues no POST.
C5_ZeroTotal ==
    \A p \in Procs : ZeroTotal(p) =>
        /\ pc[p] \in {"counted", "opened", "raised"}
        /\ pc[p] = "raised" => exc[p] = "ZeroDivisionError"
        /\ PostsOf(p) = <<>>

C5_Witness ==
    \E p \in Procs :
        /\ ZeroTotal(p) /\ pc[p] = "raised" /\ exc[p] = "ZeroDivisionError"
        /\ env.JID_UPDATE_COUNTERS # None

\* the two lines report writes for the counts of process p
SummaryText(p) ==
    CountLine(loc[p].n_indexed) \o RateLine(loc[p].n_indexed, loc[p].n_total)

\* C6: a POST is attempted only once the summary file holds its two lines; when
\* the POST fails, report has returned without an exception, after that one
\* attempt, with the message printed and the summary file as it was written.
C6_PostFailure ==
    \A p \in Procs :
        /\ PostsOf(p) # <<>> =>
               /\ obj[p].indexing_summary \in DOMAIN fs
               /\ fs[obj[p].indexing_summary] = SummaryText(p)
               /\ Len(ReadLines(fs[obj[p].indexing_summary])) = 2
               /\ loc[p].n_total # 0 /\ env.JID_UPDATE_COUNTERS # None
        /\ (\E i \in 1..Len(posts) : posts[i].by = p /\ ~posts[i].ok) =>
               /\ pc[p] = "done"
               /\ exc[p] = ""
               /\ Len(PostsOf(p)) = 1
               /\ console[p][Len(console[p])] = ElogMessage

C6_Witness ==
    \E p \in Procs :
        /\ pc[p] = "done" /\ exc[p] = ""
        /\ Len(posts) = 1 /\ posts[1].by = p /\ ~posts[1].ok
        /\ fs[obj[p].indexing_summary] = SummaryText(p)

\* process p has left report, by return or by exception, after opening the
\* indexing summary for writing
LeftReportAfterOpen(p) ==
    /\ pc[p] \in {"done", "raised"}
    /\ <<p, obj[p].indexing_summary>> \in wrote

\* C9 as stated: whenever report has opened the indexing summary, the file it
\* leaves holds exactly two lines, the count line and then the rate line.
C9_Claim ==
    \A p \in Procs : (Constructed(p) /\ cli.report /\ LeftReportAfterOpen(p)) =>
        LET lines == ReadLines(fs[obj[p].indexing_summary])
        IN  /\ Len(lines) = 2
            /\ StartsWith(lines[1], "Number of indexed events: ")
            /\ StartsWith(lines[2], "Fractional indexing rate rate: ")

(***************************************************************************)
(* Properties of the indexing rate                                         *)
(***************************************************************************)
\* process p, on rank 0, has written both lines of the indexing summary
WroteSummary(p) == cli.report /\ pc[p] \in {"written", "done"} /\ obj[p].rank = 0

\* the number of lines of the stream file that contain "Cell parameters"
IndexedIn(p) ==
    IF obj[p].stream \notin DOMAIN fs THEN 0
    ELSE LET lines == ReadLines(fs[obj[p].stream])
         IN  Cardinality({k \in 1..Len(lines) : Contains(lines[k], "Cell parameters")})

\* the integer after the colon of the "Number of hits found" line
HitsIn(p) ==
    CHOOSE t \in HitCounts :
        Contains(fs[obj[p].peakfinding_summary],
                 "Number of hits found: " \o NatToStr(t) \o "\n")

\* the rate as the summary file holds it
WrittenRate(p) ==
    LET line == ReadLines(fs[obj[p].indexing_summary])[2]
    IN  SubSeq(line, Len("Fractional indexing rate rate: ") + 1, Len(line) - 1)

\* the hundredths a text of the form i.ff stands for
HundredthsOf(text) ==
    LET parts == Split(text, ".")
    IN  100 * DigitsVal(parts[1], 0) + DigitsVal(parts[2], 0)

TwoDecimals(text) ==
    LET parts == Split(text, ".")
    IN  Len(parts) = 2 /\ AllDigits(parts[1]) /\ AllDigits(parts[2]) /\ Len(parts[2]) = 2

HundredthsText(h) == NatToStr(h \div 100) \o "." \o ZeroPad(NatToStr(h % 100), 2)

\* round(100*n/t) with a half rounded up, and with a half rounded to even
RoundHalfUp(n, t) == (200 * n + t) \div (2 * t)

RoundHalfEven(n, t) ==
    LET h == (100 * n) \div t
        r == (100 * n) % t
    IN  IF 2 * r < t THEN h
        ELSE IF 2 * r > t THEN h + 1
        ELSE IF h % 2 = 0 THEN h ELSE h + 1

\* C7 as stated: the written rate is round(100*n_indexed/n_total)/100 with two
\* decimals, whether round takes a half up or to the even neighbour.
C7_Original ==
    \A p \in Procs : WroteSummary(p) =>
        \/ WrittenRate(p) = HundredthsText(RoundHalfUp(IndexedIn(p), HitsIn(p)))
        \/ WrittenRate(p) = HundredthsText(RoundHalfEven(IndexedIn(p), HitsIn(p)))

Abs(x) == IF x < 0 THEN 0 - x ELSE x

\* C7 as amended: the count written is the number of "Cell parameters" lines,
\* and the rate written has two decimals and is a hundredth nearest to
\* n_indexed/n_total; a quotient halfway between two hundredths goes to the
\* one the binary double of the quotient is nearer to (1/8 gives 0.12, 3/8
\* 0.38, 1/40 0.03, 3/40 0.07); 50/100 gives 0.50; the POST carries the same
\* count and rate as the file.
C7_Rate ==
    \A p \in Procs : WroteSummary(p) =>
        LET n == IndexedIn(p)
            t == HitsIn(p)
            x == WrittenRate(p)
        IN  /\ ReadLines(fs[obj[p].indexing_summary])[1]
                   = "Number of indexed events: " \o NatToStr(n) \o "\n"
            /\ TwoDecimals(x)
            /\ 2 * Abs(HundredthsOf(x) * t - 100 * n) <= t
            /\ (n = 50 /\ t = 100) => x = "0.50"
            /\ (n = 1 /\ t = 8) => x = "0.12"
            /\ (n = 3 /\ t = 8) => x = "0.38"
            /\ (n = 1 /\ t = 40) => x = "0.03"
            /\ (n = 3 /\ t = 40) => x = "0.07"
            /\ \A i \in 1..Len(posts) : posts[i].by = p =>
                   /\ posts[i].json[4].value = NatToStr(n)
                   /\ posts[i].json[5].value = x

C7_Witness ==
    \E p \in Procs :
        /\ WroteSummary(p) /\ pc[p] = "done"
        /\ IndexedIn(p) = 50 /\ HitsIn(p) = 100
        /\ WrittenRate(p) = "0.50"
        /\ Len(posts) = 1 /\ posts[1].json[5].value = "0.50"

====
